---- MODULE Spec2Model ----
(***************************************************************************)
(* Model of the chat session controller of y-cli:                          *)
(*   src/src/chat/chat_manager.py  (ChatManager)                           *)
(*   src/src/cli/input_manager.py  (InputManager)                          *)
(* One session is one thread of control; the positions of that thread at   *)
(* its suspension points (input prompt, provider call, confirmation        *)
(* prompt, tool execution, persistence call) are the values of pc, and     *)
(* each action runs the code from one suspension point to the next.        *)
(***************************************************************************)
EXTENDS Integers, Sequences, FiniteSets, TLC

VARIABLES
    pc,                         \* position of the session's thread of control
    continue_exist,             \* ChatManager.continue_exist
    mcp_servers,                \* bot_config.mcp_servers: the servers configured for the bot
    messages,                   \* ChatManager.messages: the transcript
    external_id,                \* ChatManager.external_id
    current_chat,               \* ChatManager.current_chat: <<>> or <<record>>
    last_printed_text_output,   \* ChatManager.last_printed_text_output
    storage,                    \* the repository's record for chat_id: <<>> or <<record>>
    depth,                      \* number of active process_user_message frames
    mcp_tool,                   \* local of process_assistant_message: <<>> or <<triple>>
    sessions_cleared,           \* mcp_manager.clear_sessions() has run
    failure,                    \* the exception that ended run, or "none"
    turns,                      \* top-level chat inputs so far (history)
    nProvider,                  \* provider calls issued in the current turn (history)
    nExecutor,                  \* executor calls issued in the current turn (history)
    nPrompt,                    \* confirmation prompts shown since the latest reply (history)
    nWrites,                    \* completed create_chat/update_chat calls in the current turn (history)
    passed_id,                  \* correlation id carried by the record passed to the latest provider call
    known_id,                   \* first id the provider had returned when that call was issued
    first_id,                   \* first non-null id the provider returned in this session
    approved,                   \* <<>> or <<server, tool>> the gate returned true for in this round
    executing,                  \* <<>> or <<triple>> the executor was called with in this round
    outcome,                    \* <<>> or <<record>>: how the latest reply of the turn ended the recursion
    round,                      \* <<>> or <<record>>: snapshot taken when the latest tool round was approved
    reply,                      \* <<>> or <<message>>: the assistant message the provider returned last
    commits,  \* the completed writes of the session, in order: operation and record id (history)
    nToolReplies,  \* replies with a tool-use part received in the current turn (history)
    answered                    \* <<>> or <<answer>>: what was typed at the prompt in the latest step

vars == <<pc, continue_exist, mcp_servers, messages, external_id, current_chat,
          last_printed_text_output, storage, depth, mcp_tool,
          sessions_cleared, failure, turns, nProvider, nExecutor, nPrompt, nWrites, passed_id,
          known_id, first_id, approved, executing, outcome, round, reply,
          answered, commits, nToolReplies>>

-----------------------------------------------------------------------------
(* Bounds of the model *)

MaxTurns == 2        \* top-level chat inputs per session
MaxChain == 2        \* tool directives per session when the inputs are narrowed (ChainSpec)
MaxToolUses == 1     \* parseable tool directives the provider sends in a session
MaxPrompts == 1      \* unusable answers to one confirmation prompt

-----------------------------------------------------------------------------
(* Values *)

None == "None"       \* Python's None for string-valued fields

\* content: tagged union of a plain string and a list of typed parts
Str(s) == [kind |-> "str", text |-> s, parts |-> <<>>]
List(ps) == [kind |-> "list", text |-> "", parts |-> ps]

TextPart(t) ==
    [type |-> "text", text |-> t, server |-> None, tool |-> None, arguments |-> None]
ToolUsePart(s, t, a) ==
    [type |-> "tool_use", text |-> "", server |-> s, tool |-> t, arguments |-> a]

\* chat.utils.message_utils.create_message(role, content, server=, tool=, arguments=)
create_message(role, content, server, tool, arguments) ==
    [role |-> role, content |-> content, server |-> server, tool |-> tool,
     arguments |-> arguments]

\* generate_id() / the chat_id given to the constructor
chat_id == "c1"

\* line 170
no_exec_msg == "Tool execution cancelled by user."

-----------------------------------------------------------------------------
(* Tool extractor: chat.utils.tool_utils and MCPManager.extract_mcp_tool_use *)

RECURSIVE SelectParts(_, _)
SelectParts(ps, toolUse) ==
    IF ps = <<>> THEN <<>>
    ELSE IF (Head(ps).type = "tool_use") = toolUse
         THEN <<Head(ps)>> \o SelectParts(Tail(ps), toolUse)
         ELSE SelectParts(Tail(ps), toolUse)

contains_tool_use(content) ==
    /\ content.kind = "list"
    /\ \E i \in 1..Len(content.parts) : content.parts[i].type = "tool_use"

\* returns [plain, directive]
split_content(content) ==
    [plain |-> List(SelectParts(content.parts, FALSE)),
     directive |-> List(SelectParts(content.parts, TRUE))]

\* <<>> when the directive cannot be parsed, <<[server, tool, arguments]>> otherwise;
\* only the first tool-use part is looked at
extract_mcp_tool_use(tool_content) ==
    IF tool_content.parts = <<>> THEN <<>>
    ELSE LET p == Head(tool_content.parts) IN
         IF p.server = None \/ p.tool = None THEN <<>>
         ELSE <<[server |-> p.server, tool |-> p.tool, arguments |-> p.arguments]>>

\* next((part.get('text') for part in content if part.get('type') == 'text'), None)
RECURSIVE FirstText(_)
FirstText(ps) ==
    IF ps = <<>> THEN None
    ELSE IF Head(ps).type = "text" THEN Head(ps).text ELSE FirstText(Tail(ps))

\* the last text part is kept instead of the first
TextOf_last(content) ==
    IF content.kind = "str" THEN content.text
    ELSE LET texts == {i \in 1..Len(content.parts) : content.parts[i].type = "text"}
         IN  IF texts = {} THEN None
             ELSE content.parts[CHOOSE i \in texts : \A j \in texts : j <= i].text

\* lines 119-123, 140-143, 163-166: the text kept as last printed output
TextOf(content) ==
    IF content.kind = "str" THEN content.text ELSE FirstText(content.parts)

-----------------------------------------------------------------------------
(* Confirmation gate: ChatManager.get_user_confirmation, lines 86-113 *)

\* values bot_config.mcp_servers may have: none configured, or the file server
McpServerSettings == { {}, {"fs"} }

\* mcp_service.get_config(server_name): <<>> or <<server config>>
get_config(server_name) ==
    IF server_name = "fs" THEN <<[auto_confirm |-> {"list"}]>> ELSE <<>>

\* the membership test is inverted
auto_confirmed_inverted(server_name, tool_name) ==
    /\ server_name # None
    /\ tool_name # None
    /\ mcp_servers # {}
    /\ get_config(server_name) # <<>>
    /\ tool_name \notin get_config(server_name)[1].auto_confirm

\* lines 98-100: the tool is auto-confirmed for the server
auto_confirmed(server_name, tool_name) ==
    /\ server_name # None
    /\ tool_name # None
    /\ mcp_servers # {}
    /\ get_config(server_name) # <<>>
    /\ tool_name \in get_config(server_name)[1].auto_confirm

\* answers typed at the prompt are sequences of characters
IsSpace(c) == c \in {" ", "\t", "\n"}

RECURSIVE LStrip(_)
LStrip(s) ==
    IF s = <<>> THEN <<>>
    ELSE IF IsSpace(Head(s)) THEN LStrip(Tail(s)) ELSE s

RECURSIVE RStrip(_)
RStrip(s) ==
    IF s = <<>> THEN <<>>
    ELSE IF IsSpace(s[Len(s)]) THEN RStrip(SubSeq(s, 1, Len(s) - 1)) ELSE s

\* str.strip()
Strip(s) == RStrip(LStrip(s))

LowerChar(c) ==
    CASE c = "Y" -> "y"
      [] c = "E" -> "e"
      [] c = "S" -> "s"
      [] c = "N" -> "n"
      [] c = "O" -> "o"
      [] c = "C" -> "c"
      [] c = "I" -> "i"
      [] c = "P" -> "p"
      [] c = "Q" -> "q"
      [] c = "T" -> "t"
      [] c = "U" -> "u"
      [] c = "X" -> "x"
      [] OTHER -> c

\* str.lower()
Lower(s) == [i \in 1..Len(s) |-> LowerChar(s[i])]

\* the answer is compared as typed, blanks included
confirm_response_unstripped(raw) ==
    LET response == Lower(raw) IN
    IF response \in {<<"y">>, <<"y", "e", "s">>} THEN "yes"
    ELSE IF response \in {<<"n">>, <<"n", "o">>} THEN "no"
    ELSE "again"

\* every answer other than n/no counts as consent
confirm_response_lenient(raw) ==
    LET response == Lower(Strip(raw)) IN
    IF response \in {<<"n">>, <<"n", "o">>} THEN "no" ELSE "yes"

\* lines 108-113: "yes" (return True), "no" (return False) or "again" (prompt again)
confirm_response(raw) ==
    LET response == Lower(Strip(raw)) IN
    IF response \in {<<"y">>, <<"y", "e", "s">>} THEN "yes"
    ELSE IF response \in {<<"n">>, <<"n", "o">>} THEN "no"
    ELSE "again"

-----------------------------------------------------------------------------
(* What the collaborators and the human may produce *)

ProviderContents ==
    { Str("hi there"),
      List(<<TextPart("done"), TextPart("bye")>>),
      List(<<TextPart("listing"), ToolUsePart("fs", "list", "a1")>>),
      List(<<TextPart("oops"), ToolUsePart(None, "list", "a1")>>),
      List(<<ToolUsePart("fs", "read", "a2"), ToolUsePart("fs", "list", "a1")>>),
      List(<<ToolUsePart("web", "get", "a3")>>) }

ProviderIds == {None, "X", "Y"}

UserTexts == {"hello"}

ToolResults == {"a.txt, b.txt", "Error: tool failed"}

Responses ==
    { <<"y">>, <<" ", "Y", "E", "S", " ">>, <<"n">>, <<"N", "o">>, <<"m">>, <<>> }

\* records a chat started with an id may find in storage
StoredChats ==
    { [id |-> chat_id,
       messages |-> << create_message("user", Str("hello"), None, None, None),
                       create_message("assistant", Str("hi there"), None, None, None) >>,
       external_id |-> "X"] }

-----------------------------------------------------------------------------
(* Persistence service: ChatService.create_chat / update_chat *)

create_chat(msgs, ext, id) ==
    [id |-> id, messages |-> msgs, external_id |-> ext]

\* the record keeps a correlation id it already has
update_chat(old, msgs, ext) ==
    [id |-> old.id, messages |-> msgs,
     external_id |-> IF old.external_id # None THEN old.external_id ELSE ext]

\* every write creates the record
persist_op_create(chat) == "create"

\* line 187: which service call persist_chat makes
persist_op(chat) == IF chat = <<>> THEN "create" ELSE "update"

\* the record is written without the latest message of the transcript
persist_record_behind(chat, msgs, ext) ==
    IF persist_op(chat) = "create"
    THEN create_chat(SubSeq(msgs, 1, Len(msgs) - 1), ext, chat_id)
    ELSE update_chat(chat[1], SubSeq(msgs, 1, Len(msgs) - 1), ext)

\* an update adds the transcript to the one the record holds
persist_record_appending(chat, msgs, ext) ==
    IF persist_op(chat) = "create" THEN create_chat(msgs, ext, chat_id)
    ELSE update_chat(chat[1], chat[1].messages \o msgs, ext)

\* lines 185-192: the record persist_chat writes
persist_record(chat, msgs, ext) ==
    IF persist_op(chat) = "create" THEN create_chat(msgs, ext, chat_id)
    ELSE update_chat(chat[1], msgs, ext)

\* the correlation id carried by the record handed to the provider (line 125)
chat_external_id(chat) == IF chat = <<>> THEN None ELSE chat[1].external_id

-----------------------------------------------------------------------------
(* Steps of process_user_message / process_assistant_message as functions *)

\* lines 126-127
next_external_id(cur, returned) == IF returned # None THEN returned ELSE cur

\* the reply is not appended
terminal_messages_dropped(msgs, am) == msgs

\* the reply is appended with its content run through the directive split
terminal_messages_rewritten(msgs, am) ==
    Append(msgs, [am EXCEPT !.content = List(SelectParts(am.content.parts, FALSE))])

\* line 137: the reply is appended as it came
terminal_messages(msgs, am) == Append(msgs, am)

\* the unparsed reply is appended all the same
malformed_messages_appended(msgs, am) == Append(msgs, am)

\* lines 151-152: a directive that cannot be parsed leaves the transcript alone
malformed_messages(msgs, am) == msgs

\* lines 155-160: metadata attached, content replaced by the plain part
directive_message(am, plain, mt) ==
    [am EXCEPT !.server = mt.server, !.tool = mt.tool,
               !.arguments = mt.arguments, !.content = plain]

\* the notice takes the place of the directive message
cancel_messages_replacing(msgs) ==
    SubSeq(msgs, 1, Len(msgs) - 1)
        \o <<create_message("user", Str(no_exec_msg), None, None, None)>>

\* lines 170-173
cancel_messages(msgs) ==
    Append(msgs, create_message("user", Str(no_exec_msg), None, None, None))

\* the tool result is wrapped without the tool metadata
tool_result_message_bare(tool_results, mt) ==
    create_message("user", Str(tool_results), None, None, None)

\* the tool result is wrapped as an assistant message
tool_result_message_assistant(tool_results, mt) ==
    create_message("assistant", Str(tool_results), mt.server, mt.tool, mt.arguments)

\* line 180
tool_result_message(tool_results, mt) ==
    create_message("user", Str(tool_results), mt.server, mt.tool, mt.arguments)

\* the denial does not stop the round
proceeds_unless_again(confirmed) == confirmed # "again"

\* line 169: execution goes on only when the gate returned True
proceeds(confirmed) == confirmed = "yes"

-----------------------------------------------------------------------------
(* Input manager: src/src/cli/input_manager.py *)

\* what the terminal prompt hands back: end of input (EOFError), or a line;
\* body holds the lines typed after a line <<EOF, up to the closing line EOF
EndOfInput == [eof |-> TRUE, text |-> <<>>, body |-> <<>>]
Line(text) == [eof |-> FALSE, text |-> text, body |-> <<>>]
Block(body) == [eof |-> FALSE, text |-> <<"<", "<", "E", "O", "F">>, body |-> body]

\* line 11
SLASH_COMMANDS == { <<"/", "c", "o", "p", "y">>,
                    <<"/", "t", "r", "a", "n", "s", "l", "a", "t", "e">>,
                    <<"/", "s", "a", "v", "e">> }

\* str.startswith(prefix)
StartsWith(s, prefix) ==
    Len(s) >= Len(prefix) /\ SubSeq(s, 1, Len(prefix)) = prefix

\* the text of a message made of the characters typed
RECURSIVE Join(_)
Join(s) == IF s = <<>> THEN "" ELSE Head(s) \o Join(Tail(s))

\* "\n".join(lines), line 64
RECURSIVE JoinLines(_)
JoinLines(lines) ==
    IF lines = <<>> THEN <<>>
    ELSE IF Len(lines) = 1 THEN lines[1]
    ELSE lines[1] \o <<"\n">> \o JoinLines(Tail(lines))

\* lines 158-167
is_exit_command(text) == Lower(text) \in {<<"e", "x", "i", "t">>, <<"q", "u", "i", "t">>}

\* input_manager.py lines 29-69: [type, value] for what the prompt handed back
get_input(answer) ==
    IF answer.eof THEN [type |-> "exit", value |-> <<"E", "O", "F">>]
    ELSE LET text == RStrip(answer.text) IN
         IF text = <<>> THEN [type |-> "empty", value |-> <<>>]
         ELSE IF is_exit_command(text) THEN [type |-> "exit", value |-> text]
         ELSE IF StartsWith(text, <<"/">>) /\ text \in SLASH_COMMANDS
              THEN [type |-> "command", value |-> text]
         ELSE IF text = <<"<", "<", "E", "O", "F">>
              THEN [type |-> "chat", value |-> JoinLines(answer.body)]
         ELSE [type |-> "chat", value |-> text]

\* the number of leading characters that are not blanks
RECURSIVE WordLen(_)
WordLen(s) ==
    IF s = <<>> \/ IsSpace(Head(s)) THEN 0 ELSE 1 + WordLen(Tail(s))

\* str.split()
RECURSIVE Split(_)
Split(s) ==
    LET t == LStrip(s) IN
    IF t = <<>> THEN <<>>
    ELSE <<SubSeq(t, 1, WordLen(t))>> \o Split(SubSeq(t, WordLen(t) + 1, Len(t)))

Digits == {"0", "1", "2", "3", "4", "5", "6", "7", "8", "9"}

DigitValue(c) ==
    CASE c = "0" -> 0 [] c = "1" -> 1 [] c = "2" -> 2 [] c = "3" -> 3
      [] c = "4" -> 4 [] c = "5" -> 5 [] c = "6" -> 6 [] c = "7" -> 7
      [] c = "8" -> 8 [] c = "9" -> 9

RECURSIVE Number(_)
Number(ds) ==
    IF ds = <<>> THEN 0 ELSE 10 * Number(SubSeq(ds, 1, Len(ds) - 1)) + DigitValue(ds[Len(ds)])

\* int(word), line 104: <<>> for ValueError, <<n>> otherwise
ParseInt(word) ==
    LET signed == word # <<>> /\ Head(word) \in {"-", "+"}
        ds == IF signed THEN Tail(word) ELSE word
    IN  IF ds = <<>> \/ \E i \in 1..Len(ds) : ds[i] \notin Digits THEN <<>>
        ELSE <<(IF signed /\ Head(word) = "-" THEN -1 ELSE 1) * Number(ds)>>

\* a copy command that is not well formed is reported as not handled
handle_copy_command_unhandled(command, msgs, last) ==
    LET parts == Split(command) IN
    IF parts[1] = <<"/", "c", "o", "p", "y">> /\ Len(parts) = 1
    THEN [handled |-> TRUE, report |-> "copied last output"]
    ELSE IF parts[1] = <<"c", "o", "p", "y">> /\ Len(parts) = 2
    THEN [handled |-> TRUE, report |-> "copied message"]
    ELSE [handled |-> FALSE, report |-> "invalid format"]

\* input_manager.py lines 78-124: the value returned and the line printed
handle_copy_command(command, msgs, last) ==
    LET parts == Split(command) IN
    IF parts[1] = <<"/", "c", "o", "p", "y">> /\ Len(parts) = 1
    THEN IF last # None /\ last # ""
         THEN [handled |-> TRUE, report |-> "copied last output"]
         ELSE [handled |-> TRUE, report |-> "no output yet"]
    ELSE IF parts[1] = <<"c", "o", "p", "y">> /\ Len(parts) = 2
    THEN LET msg_idx == ParseInt(parts[2]) IN
         IF msg_idx = <<>>
         THEN [handled |-> TRUE, report |-> "invalid command"]
         ELSE IF 0 <= msg_idx[1] /\ msg_idx[1] < Len(msgs)
         THEN [handled |-> TRUE, report |-> "copied message"]
         ELSE [handled |-> TRUE, report |-> "invalid index"]
    ELSE [handled |-> TRUE, report |-> "invalid format"]

\* lines 71-76: index of the last assistant message, 0 when there is none
LastAssistant(msgs) ==
    LET idx == {i \in 1..Len(msgs) : msgs[i].role = "assistant"} IN
    IF idx = {} THEN 0 ELSE CHOOSE i \in idx : \A j \in idx : j <= i

\* input_manager.py lines 126-148: <<>> (None) or <<the text to translate>>
handle_translate_command(msgs) ==
    LET i == LastAssistant(msgs) IN
    IF i = 0 THEN <<>>
    ELSE LET text == TextOf(msgs[i].content) IN
         IF text = None \/ text = "" THEN <<>> ELSE <<text>>

-----------------------------------------------------------------------------
(* Initial state: the object as the constructor leaves it, lines 57-71 *)

Init ==
    /\ pc = "start"
    /\ continue_exist \in BOOLEAN
    /\ mcp_servers \in McpServerSettings
    /\ storage \in IF continue_exist
                   THEN {<<>>} \cup { <<c>> : c \in StoredChats }
                   ELSE {<<>>}
    /\ messages = <<>>
    /\ external_id = None
    /\ current_chat = <<>>
    /\ last_printed_text_output = None
    /\ depth = 0
    /\ mcp_tool = <<>>
    /\ sessions_cleared = FALSE
    /\ failure = "none"
    /\ turns = 0
    /\ nProvider = 0
    /\ nExecutor = 0
    /\ nPrompt = 0
    /\ nWrites = 0
    /\ passed_id = None
    /\ known_id = None
    /\ first_id = None
    /\ approved = <<>>
    /\ executing = <<>>
    /\ outcome = <<>>
    /\ round = <<>>
    /\ reply = <<>>
    /\ answered = <<>>
    /\ commits = <<>>
    /\ nToolReplies = 0

history == <<turns, nProvider, nExecutor, nPrompt, nWrites, passed_id, known_id,
             first_id, approved, executing, outcome, round, reply, commits, nToolReplies>>

\* the exception leaves run without the finally clause having run
Raise_unreleased(what) ==
    /\ pc' = "stopped"
    /\ failure' = what
    /\ UNCHANGED sessions_cleared

\* an exception leaves run through the finally clause, lines 314-318
Raise(what) ==
    /\ pc' = "stopped"
    /\ failure' = what
    /\ sessions_cleared' = TRUE

-----------------------------------------------------------------------------
(* run, lines 194-251: load the chat when an id was given, then prompt *)

RunStart ==
    /\ pc = "start"
    /\ IF continue_exist /\ storage = <<>>
       THEN \* _load_chat raises ValueError, lines 76-78
            /\ Raise("load")
            /\ UNCHANGED <<messages, current_chat>>
       ELSE /\ pc' = "input"
            /\ messages' = IF continue_exist THEN storage[1].messages ELSE messages
            /\ current_chat' = IF continue_exist THEN storage ELSE current_chat
            /\ UNCHANGED <<failure, sessions_cleared>>
    /\ answered' = <<>>
    /\ UNCHANGED <<continue_exist, mcp_servers, external_id, last_printed_text_output, storage,
                   depth, mcp_tool, history>>

\* run, lines 259-261 and 316-318: the loop is left and run ends
ExitLoop ==
    /\ pc = "input"
    /\ pc' = "stopped"
    /\ sessions_cleared' = TRUE
    /\ UNCHANGED <<continue_exist, mcp_servers, messages, external_id, current_chat,
                   last_printed_text_output, storage, depth, mcp_tool,
                   failure, history>>

\* run, lines 259-261: get_input returned 'exit'
ExitInput ==
    /\ ExitLoop
    /\ answered' = <<>>

\* process_user_message, lines 116-125, up to the provider call
EnterUserMessage(user_message) ==
    /\ messages' = Append(messages, user_message)
    /\ last_printed_text_output' = TextOf(user_message.content)
    /\ depth' = depth + 1
    /\ passed_id' = chat_external_id(current_chat)
    /\ known_id' = first_id
    /\ pc' = "provider"

\* run, lines 300-312: the turn a chat input starts
StartTurn(text) ==
    /\ pc = "input"
    /\ turns < MaxTurns
    /\ EnterUserMessage(create_message("user", Str(text), None, None, None))
    /\ turns' = turns + 1
    /\ nProvider' = 1
    /\ nExecutor' = 0
    /\ nPrompt' = 0
    /\ nWrites' = 0
    /\ approved' = <<>>
    /\ executing' = <<>>
    /\ outcome' = <<>>
    /\ round' = <<>>
    /\ reply' = <<>>
    /\ mcp_tool' = <<>>
    /\ nToolReplies' = 0
    /\ UNCHANGED commits
    /\ UNCHANGED <<continue_exist, mcp_servers, external_id, current_chat, storage,
                   sessions_cleared, failure, first_id>>

\* run, lines 300-312: a chat input starts a turn
ChatInput(text) ==
    /\ StartTurn(text)
    /\ answered' = <<>>

\* the directive messages this session has appended (loaded transcripts hold none)
RECURSIVE ToolUses(_)
ToolUses(msgs) ==
    IF msgs = <<>> THEN 0
    ELSE (IF Head(msgs).role = "assistant" /\ Head(msgs).server # None THEN 1 ELSE 0)
         + ToolUses(Tail(msgs))

\* the snapshot kept when a reply ends the recursion
Ended(kind) ==
    <<[kind |-> kind, len |-> Len(messages), prov |-> nProvider,
       exec |-> nExecutor]>>

\* the snapshot kept when the gate lets a tool round go on;
\* start is the transcript length before the round's assistant message
Approved(start) ==
    <<[start |-> start, prov |-> nProvider, exec |-> nExecutor]>>

\* process_user_message, lines 125-128, and process_assistant_message, lines
\* 131-177, from the provider's answer to the next suspension point
ProviderReturnsWithin(limit, content, id) ==
    /\ pc = "provider"
    /\ LET am == create_message("assistant", content, None, None, None) IN
       /\ (contains_tool_use(content)
             /\ extract_mcp_tool_use(split_content(content).directive) # <<>>)
          => ToolUses(messages) < limit
       /\ external_id' = next_external_id(external_id, id)
       /\ first_id' = IF first_id = None THEN id ELSE first_id
       /\ reply' = <<am>>
       /\ IF ~contains_tool_use(content)
          THEN /\ messages' = terminal_messages(messages, am)
               /\ last_printed_text_output' = TextOf(content)
               /\ pc' = "persist"
               /\ outcome' = Ended("terminal")
               /\ mcp_tool' = <<>>
               /\ nPrompt' = 0
               /\ UNCHANGED <<approved, executing, round, nExecutor>>
          ELSE LET sc == split_content(content)
                   mt == extract_mcp_tool_use(sc.directive)
               IN  IF mt = <<>>
                   THEN /\ messages' = malformed_messages(messages, am)
                        /\ pc' = "persist"
                        /\ outcome' = Ended("malformed")
                        /\ mcp_tool' = <<>>
                        /\ nPrompt' = 0
                        /\ UNCHANGED <<last_printed_text_output, approved,
                                       executing, round, nExecutor>>
                   ELSE /\ messages' = Append(messages,
                                          directive_message(am, sc.plain, mt[1]))
                        /\ last_printed_text_output' = TextOf(sc.plain)
                        /\ mcp_tool' = mt
                        /\ outcome' = <<>>
                        /\ IF auto_confirmed(mt[1].server, mt[1].tool)
                           THEN /\ approved' = <<[server |-> mt[1].server,
                                                  tool |-> mt[1].tool,
                                                  via |-> "auto", answer |-> <<>>]>>
                                /\ executing' = mt
                                /\ round' = Approved(Len(messages))
                                /\ nExecutor' = nExecutor + 1
                                /\ pc' = "execute"
                                /\ nPrompt' = 0
                           ELSE /\ approved' = <<>>
                                /\ executing' = <<>>
                                /\ nPrompt' = 1
                                /\ pc' = "confirm"
                                /\ UNCHANGED <<round, nExecutor>>
    /\ answered' = <<>>
    /\ nToolReplies' = nToolReplies + IF contains_tool_use(content) THEN 1 ELSE 0
    /\ UNCHANGED commits
    /\ UNCHANGED <<continue_exist, mcp_servers, current_chat, storage, depth, sessions_cleared,
                   failure, turns, nProvider, nWrites, passed_id, known_id>>

\* the provider's answer, with the session's tool directives bounded
ProviderReturns(content, id) == ProviderReturnsWithin(MaxToolUses, content, id)

\* the provider's exception is swallowed and the frame goes on to persist
ProviderFails_swallowed ==
    /\ pc = "provider"
    /\ pc' = "persist"
    /\ failure' = "provider"
    /\ answered' = <<>>
    /\ UNCHANGED <<continue_exist, mcp_servers, messages, external_id, current_chat,
                   last_printed_text_output, storage, depth, mcp_tool,
                   sessions_cleared, history>>

\* the provider call raises: nothing in process_user_message or run catches it
ProviderFails ==
    /\ pc = "provider"
    /\ Raise("provider")
    /\ answered' = <<>>
    /\ UNCHANGED <<continue_exist, mcp_servers, messages, external_id, current_chat,
                   last_printed_text_output, storage, depth, mcp_tool,
                   history>>

\* get_user_confirmation, lines 107-113, and process_assistant_message, lines
\* 169-177: one answer typed at the prompt
ConfirmAnswer(raw) ==
    /\ pc = "confirm"
    /\ LET confirmed == confirm_response(raw) IN
       /\ confirmed = "again" => nPrompt <= MaxPrompts
       /\ IF confirmed = "again"
          THEN /\ nPrompt' = nPrompt + 1
               /\ UNCHANGED <<pc, messages, approved, executing, round, outcome,
                              nExecutor>>
          ELSE /\ approved' = IF confirmed = "yes"
                              THEN <<[server |-> mcp_tool[1].server,
                                      tool |-> mcp_tool[1].tool,
                                      via |-> "answer", answer |-> raw]>>
                              ELSE <<>>
               /\ outcome' = IF confirmed = "no" THEN Ended("cancelled") ELSE outcome
               /\ IF proceeds(confirmed)
                  THEN /\ executing' = mcp_tool
                       /\ round' = Approved(Len(messages) - 1)
                       /\ nExecutor' = nExecutor + 1
                       /\ pc' = "execute"
                       /\ UNCHANGED messages
                  ELSE /\ messages' = cancel_messages(messages)
                       /\ pc' = "persist"
                       /\ UNCHANGED <<executing, round, nExecutor>>
               /\ UNCHANGED nPrompt
    /\ answered' = <<raw>>
    /\ UNCHANGED nToolReplies
    /\ UNCHANGED commits
    /\ UNCHANGED <<continue_exist, mcp_servers, external_id, current_chat,
                   last_printed_text_output, storage, depth, mcp_tool,
                   sessions_cleared, failure, turns, nProvider, nWrites, passed_id,
                   known_id, first_id, reply>>

\* the result is appended and the executor is called again at once, without
\* a provider call in between
ToolReturns_reissuing(tool_results) ==
    /\ pc = "execute"
    /\ nExecutor < MaxChain
    /\ messages' = Append(messages, tool_result_message(tool_results, mcp_tool[1]))
    /\ nExecutor' = nExecutor + 1
    /\ answered' = <<>>
    /\ UNCHANGED <<pc, continue_exist, mcp_servers, external_id, current_chat,
                   last_printed_text_output, storage, depth, mcp_tool,
                   sessions_cleared, failure, turns, nProvider, nPrompt, nWrites,
                   passed_id, known_id, first_id, approved, executing, outcome,
                   round, reply, commits, nToolReplies>>

\* the result is appended but not fed back to the provider: the frame goes on
\* to its write
ToolReturns_unfed(tool_results) ==
    /\ pc = "execute"
    /\ messages' = Append(messages, tool_result_message(tool_results, mcp_tool[1]))
    /\ pc' = "persist"
    /\ approved' = <<>>
    /\ executing' = <<>>
    /\ answered' = <<>>
    /\ UNCHANGED <<continue_exist, mcp_servers, external_id, current_chat,
                   last_printed_text_output, storage, depth, mcp_tool,
                   sessions_cleared, failure, turns, nProvider, nExecutor, nPrompt,
                   nWrites, passed_id, known_id, first_id, outcome, round, reply,
                   commits, nToolReplies>>

\* process_assistant_message, lines 177-183: the executor returned (a payload or
\* a failure description); its result starts the next round
ToolReturns(tool_results) ==
    /\ pc = "execute"
    /\ EnterUserMessage(tool_result_message(tool_results, mcp_tool[1]))
    /\ nProvider' = nProvider + 1
    /\ approved' = <<>>
    /\ executing' = <<>>
    /\ answered' = <<>>
    /\ UNCHANGED nToolReplies
    /\ UNCHANGED commits
    /\ UNCHANGED <<continue_exist, mcp_servers, external_id, current_chat, storage, mcp_tool,
                   sessions_cleared, failure, turns, nExecutor, nPrompt,
                   nWrites, first_id, outcome, round, reply>>

\* process_user_message, line 129, and persist_chat, lines 185-192: the write
\* of one frame completes and the frame returns to its caller
PersistReturns ==
    /\ pc = "persist"
    /\ LET rec == persist_record(current_chat, messages, external_id) IN
       /\ current_chat' = <<rec>>
       /\ storage' = <<rec>>
    /\ nWrites' = nWrites + 1
    /\ depth' = depth - 1
    /\ pc' = IF depth = 1 THEN "input" ELSE "persist"
    /\ answered' = <<>>
    /\ UNCHANGED nToolReplies
    /\ commits' = Append(commits, [op |-> persist_op(current_chat), id |-> persist_record(current_chat, messages, external_id).id])
    /\ UNCHANGED <<continue_exist, mcp_servers, messages, external_id, last_printed_text_output,
                   mcp_tool, sessions_cleared, failure, turns, nProvider,
                   nExecutor, nPrompt, passed_id, known_id, first_id, approved,
                   executing, outcome, round, reply>>

\* create_chat / update_chat raises: nothing in process_user_message or run
\* catches it
PersistFails ==
    /\ pc = "persist"
    /\ Raise("persist")
    /\ answered' = <<>>
    /\ UNCHANGED <<continue_exist, mcp_servers, messages, external_id, current_chat,
                   last_printed_text_output, storage, depth, mcp_tool,
                   history>>

\* run, lines 314-318: KeyboardInterrupt / EOFError raised at a suspension
\* point; a write that was in flight may or may not have reached the storage
Interrupt ==
    /\ pc \in {"input", "provider", "confirm", "execute", "persist"}
    /\ Raise("interrupt")
    /\ storage' \in IF pc = "persist"
                    THEN {storage, <<persist_record(current_chat, messages, external_id)>>}
                    ELSE {storage}
    /\ answered' = <<>>
    /\ UNCHANGED <<continue_exist, mcp_servers, messages, external_id, current_chat,
                   last_printed_text_output, depth, mcp_tool, history>>

Next ==
    \/ RunStart
    \/ ExitInput
    \/ \E text \in UserTexts : ChatInput(text)
    \/ \E content \in ProviderContents, id \in ProviderIds : ProviderReturns(content, id)
    \/ ProviderFails
    \/ \E raw \in Responses : ConfirmAnswer(raw)
    \/ \E tool_results \in ToolResults : ToolReturns(tool_results)
    \/ PersistReturns
    \/ PersistFails
    \/ Interrupt

Spec == Init /\ [][Next]_vars

-----------------------------------------------------------------------------
(* Chains of tool rounds: the same program with the inputs narrowed to one
   text reply, one auto-confirmed and one prompted directive, so that a turn
   can go through more than one tool round *)

ChainContents ==
    { Str("hi there"),
      List(<<TextPart("listing"), ToolUsePart("fs", "list", "a1")>>),
      List(<<ToolUsePart("fs", "read", "a2"), ToolUsePart("fs", "list", "a1")>>) }

ChainResponses == { <<"y">>, <<"n">>, <<"m">> }

ChainInit ==
    /\ Init
    /\ ~continue_exist
    /\ mcp_servers = {"fs"}

ChainNext ==
    \/ RunStart
    \/ ExitInput
    \/ \E text \in UserTexts : ChatInput(text)
    \/ \E content \in ChainContents : ProviderReturnsWithin(MaxChain, content, None)
    \/ ProviderFails
    \/ \E raw \in ChainResponses : ConfirmAnswer(raw)
    \/ \E tool_results \in ToolResults : ToolReturns(tool_results)
    \/ PersistReturns
    \/ PersistFails
    \/ Interrupt

ChainSpec == ChainInit /\ [][ChainNext]_vars

\* every collaborator call and every prompt returns or raises: a step that is
\* possible is eventually taken
ChainLive == ChainSpec /\ WF_vars(ChainNext)

-----------------------------------------------------------------------------
(* The session loop with the input manager: what is typed at the prompt is
   classified by get_input and dispatched by run, lines 253-312. The
   collaborators are narrowed to one text reply and one directive, in a
   session of a bot without configured servers. *)

InputAnswers ==
    { EndOfInput,
      Line(<<>>),
      Line(<<" ", " ">>),
      Line(<<"E", "x", "i", "t">>),
      Line(<<"Q", "U", "I", "T", " ">>),
      Line(<<"/", "c", "o", "p", "y">>),
      Line(<<"/", "t", "r", "a", "n", "s", "l", "a", "t", "e">>),
      Line(<<"/", "s", "a", "v", "e">>),
      Line(<<"c", "o", "p", "y", " ", "1">>),
      Line(<<"c", "o", "p", "y", " ", "9">>),
      Line(<<"c", "o", "p", "y", " ", "x">>),
      Line(<<"c", "o", "p", "y", " ", "1", " ", "2">>),
      Line(<<"C", "o", "p", "y", " ", "t", "h", "a", "t">>),
      Line(<<"h", "e", "l", "l", "o">>),
      Line(<<"c", "o", "p", "y", " ">>),
      Block(<< <<"c", "o", "p", "y", " ", "1">> >>),
      Block(<< <<"h", "e", "l", "l", "o">>, <<"e", "x", "i", "t">> >>) }

\* what provider.translate_text may return: a translation, or nothing
TranslateResults == {"ni hao", None}

InputContents ==
    { Str("hi there"),
      List(<<TextPart("listing"), ToolUsePart("fs", "list", "a1")>>) }

\* what an input that starts no turn and does not end the loop leaves alone
InputFrame ==
    UNCHANGED <<pc, continue_exist, mcp_servers, messages, external_id, current_chat,
                storage, depth, mcp_tool, sessions_cleared, failure, history>>

\* run, lines 259-261
ExitLine(answer) ==
    /\ get_input(answer).type = "exit"
    /\ ExitLoop
    /\ answered' = <<answer>>

\* run, lines 263-266
EmptyInput(answer) ==
    /\ pc = "input"
    /\ get_input(answer).type = "empty"
    /\ answered' = <<answer>>
    /\ UNCHANGED last_printed_text_output
    /\ InputFrame

\* run, lines 269-291: a slash command; translated is what translate_text returns
CommandInput(answer, translated) ==
    /\ pc = "input"
    /\ get_input(answer).type = "command"
    /\ answered' = <<answer>>
    /\ LET value == get_input(answer).value IN
       IF value = <<"/", "c", "o", "p", "y">>
       THEN /\ handle_copy_command(value, messages, last_printed_text_output).handled
                 \in BOOLEAN
            /\ UNCHANGED last_printed_text_output
       ELSE IF value = <<"/", "t", "r", "a", "n", "s", "l", "a", "t", "e">>
       THEN LET content_to_translate == handle_translate_command(messages) IN
            IF content_to_translate # <<>> /\ translated # None
            THEN last_printed_text_output' = translated
            ELSE UNCHANGED last_printed_text_output
       ELSE UNCHANGED last_printed_text_output
    /\ InputFrame

\* run, line 280: translate_text raises; nothing in run catches it
TranslateFails(answer) ==
    /\ pc = "input"
    /\ get_input(answer).type = "command"
    /\ get_input(answer).value = <<"/", "t", "r", "a", "n", "s", "l", "a", "t", "e">>
    /\ handle_translate_command(messages) # <<>>
    /\ Raise("translate")
    /\ answered' = <<answer>>
    /\ UNCHANGED <<continue_exist, mcp_servers, messages, external_id, current_chat,
                   last_printed_text_output, storage, depth, mcp_tool, history>>

\* run, lines 294-297: the input starts with "copy " and the handler reports
\* it handled
copy_handled(value) ==
    /\ StartsWith(Lower(value), <<"c", "o", "p", "y", " ">>)
    /\ handle_copy_command(value, messages, last_printed_text_output).handled

\* run, lines 294-297
CopyInput(answer) ==
    /\ pc = "input"
    /\ get_input(answer).type = "chat"
    /\ copy_handled(get_input(answer).value)
    /\ answered' = <<answer>>
    /\ UNCHANGED last_printed_text_output
    /\ InputFrame

\* run, lines 300-312
ChatLine(answer) ==
    /\ get_input(answer).type = "chat"
    /\ ~copy_handled(get_input(answer).value)
    /\ StartTurn(Join(get_input(answer).value))
    /\ answered' = <<answer>>

InputInit ==
    /\ Init
    /\ ~continue_exist
    /\ mcp_servers = {}

InputNext ==
    \/ RunStart
    \/ \E answer \in InputAnswers : ExitLine(answer)
    \/ \E answer \in InputAnswers : EmptyInput(answer)
    \/ \E answer \in InputAnswers, translated \in TranslateResults :
          CommandInput(answer, translated)
    \/ \E answer \in InputAnswers : TranslateFails(answer)
    \/ \E answer \in InputAnswers : CopyInput(answer)
    \/ \E answer \in InputAnswers : ChatLine(answer)
    \/ \E content \in InputContents : ProviderReturnsWithin(MaxToolUses, content, None)
    \/ ProviderFails
    \/ \E raw \in ChainResponses : ConfirmAnswer(raw)
    \/ \E tool_results \in ToolResults : ToolReturns(tool_results)
    \/ PersistReturns
    \/ PersistFails
    \/ Interrupt

InputSpec == InputInit /\ [][InputNext]_vars

-----------------------------------------------------------------------------
(* Properties *)

Last(seq) == seq[Len(seq)]

\* the top-level process_user_message of a turn has returned to the loop
ReturnedNormally == pc = "input" /\ turns > 0

IsTerminalAssistant(m) == m.role = "assistant" /\ ~contains_tool_use(m.content)

IsCancellation(m) ==
    /\ m.role = "user"
    /\ m.content = Str("Tool execution cancelled by user.")
    /\ m.server = None /\ m.tool = None /\ m.arguments = None

\* the directive of a reply, as the extractor sees it
DirectiveOf(m) == extract_mcp_tool_use(split_content(m.content).directive)

\* the latest reply asked for a tool with a directive that cannot be parsed
ReplyMalformed ==
    /\ reply # <<>>
    /\ contains_tool_use(reply[1].content)
    /\ DirectiveOf(reply[1]) = <<>>

\* the turn is over as far as the controller is concerned: what is left is the
\* writes of the frames that unwind, the next prompt, or the end of run
Unwinding ==
    \/ pc \in {"persist", "input"}
    \/ pc = "stopped" /\ failure \in {"none", "persist"}
    \/ pc = "stopped" /\ failure = "interrupt" /\ outcome # <<>>

\* C1 (as claimed): when the turn controller returns normally the transcript
\* ends in an assistant message without tool-use part or in the cancellation
\* notice, and in no other shape.
C1_FinalShapeAsClaimed ==
    ReturnedNormally =>
        /\ messages # <<>>
        /\ \/ IsTerminalAssistant(Last(messages))
           \/ IsCancellation(Last(messages))

\* C1 (amended): when the turn controller returns normally the transcript ends
\* in an assistant message without tool-use part, in the cancellation notice,
\* or, when the directive of the last reply could not be parsed, in the user
\* message that reply answered.
C1_FinalShape ==
    ReturnedNormally =>
        /\ messages # <<>>
        /\ \/ IsTerminalAssistant(Last(messages))
           \/ IsCancellation(Last(messages))
           \/ ReplyMalformed /\ Last(messages).role = "user"

C1_Witness ==
    /\ ReturnedNormally
    /\ ReplyMalformed
    /\ Last(messages).role = "user"
    /\ ~IsCancellation(Last(messages))

\* C2: whenever the executor is called, the gate has returned true in this
\* round for the same server and tool, by auto-confirm membership or by an
\* answer that normalizes to y/yes, and the executor is called with exactly
\* the server, tool and arguments extracted from this round's directive.
C2_AuthorizedExecution ==
    pc = "execute" =>
        /\ reply # <<>>
        /\ executing # <<>>
        /\ executing = DirectiveOf(reply[1])
        /\ approved # <<>>
        /\ approved[1].server = executing[1].server
        /\ approved[1].tool = executing[1].tool
        /\ \/ /\ approved[1].via = "auto"
              /\ get_config(approved[1].server) # <<>>
              /\ approved[1].tool \in get_config(approved[1].server)[1].auto_confirm
           \/ /\ approved[1].via = "answer"
              /\ Lower(Strip(approved[1].answer)) \in {<<"y">>, <<"y", "e", "s">>}

C2_Witness ==
    /\ pc = "execute"
    /\ approved # <<>>
    /\ approved[1].via = "answer"
    /\ approved[1].answer = <<" ", "Y", "E", "S", " ">>
    /\ executing # <<>>
    /\ executing[1].tool = "read"

\* C3: after the gate has denied a tool call the transcript holds exactly one
\* more message, the cancellation notice, right after the assistant directive
\* message; no executor call and no provider call follows in that turn, and
\* the turn is over.
C3_Cancellation ==
    (outcome # <<>> /\ outcome[1].kind = "cancelled") =>
        /\ Len(messages) = outcome[1].len + 1
        /\ IsCancellation(Last(messages))
        /\ LET d == messages[Len(messages) - 1] IN
           /\ d.role = "assistant"
           /\ mcp_tool # <<>>
           /\ d.server = mcp_tool[1].server
           /\ d.tool = mcp_tool[1].tool
           /\ d.arguments = mcp_tool[1].arguments
        /\ executing = <<>>
        /\ nExecutor = outcome[1].exec
        /\ nProvider = outcome[1].prov
        /\ Unwinding

C3_Witness ==
    /\ outcome # <<>>
    /\ outcome[1].kind = "cancelled"
    /\ ReturnedNormally
    /\ IsCancellation(Last(messages))

\* C4: after a reply without tool-use part the transcript holds exactly one
\* more message, that reply unchanged; no prompt, no executor call and no
\* provider call follows in that turn.
C4_TerminalDetection ==
    (reply # <<>> /\ ~contains_tool_use(reply[1].content)) =>
        /\ outcome # <<>>
        /\ outcome[1].kind = "terminal"
        /\ Len(messages) = outcome[1].len + 1
        /\ Last(messages) = reply[1]
        /\ nProvider = outcome[1].prov
        /\ nExecutor = outcome[1].exec
        /\ nPrompt = 0
        /\ Unwinding

C4_Witness ==
    /\ reply # <<>>
    /\ reply[1].content = Str("hi there")
    /\ ReturnedNormally
    /\ Last(messages) = reply[1]
    /\ nProvider = 2

\* the provider call of the current frame has not been answered: it is
\* pending, it raised, or the session was interrupted while it was pending
AwaitingReply ==
    \/ pc = "provider"
    \/ failure = "provider"
    \/ failure = "interrupt" /\ outcome = <<>> /\ Last(messages).role = "user"

C6_OneWritePerTurn == ReturnedNormally => nWrites = 1

\* C7 (as claimed): after create_chat or update_chat has failed the session
\* goes on: run has not ended and its resources are not released.
C7_PersistFailureNotFatal ==
    failure = "persist" => (pc # "stopped" /\ ~sessions_cleared)

\* C8 (as claimed): once the provider has returned a correlation id, every
\* later provider call of the session is passed that id.
C8_CorrelationPassed ==
    (pc = "provider" /\ known_id # None) => passed_id = known_id

\* C9 (as claimed): once the session's correlation id is set it never changes.
C9_CorrelationPinned ==
    [][external_id # None => external_id' = external_id]_vars

\* C10: after a reply whose directive cannot be parsed nothing is appended for
\* that reply, no exception leaves the controller, and no prompt, no executor
\* call and no provider call follows in that turn.
C10_MalformedAbort ==
    ReplyMalformed =>
        /\ outcome # <<>>
        /\ outcome[1].kind = "malformed"
        /\ Len(messages) = outcome[1].len
        /\ Last(messages).role = "user"
        /\ nProvider = outcome[1].prov
        /\ nExecutor = outcome[1].exec
        /\ nPrompt = 0
        /\ approved = <<>>
        /\ executing = <<>>
        /\ Unwinding

C10_Witness ==
    /\ ReplyMalformed
    /\ ReturnedNormally
    /\ nWrites = 2
    /\ Len(messages) = outcome[1].len

\* the latest reply asks for a tool that is in the auto-confirm set configured
\* for its server
ReplyInAutoConfirmSet ==
    /\ reply # <<>>
    /\ contains_tool_use(reply[1].content)
    /\ DirectiveOf(reply[1]) # <<>>
    /\ LET mt == DirectiveOf(reply[1])[1] IN
       /\ get_config(mt.server) # <<>>
       /\ mt.tool \in get_config(mt.server)[1].auto_confirm

\* the gate returned true without a prompt
PassedWithoutPrompt ==
    /\ nPrompt = 0
    /\ pc # "confirm"
    /\ nExecutor >= 1
    /\ pc = "execute" => (approved # <<>> /\ approved[1].via = "auto")

\* C11 (as claimed): if the requested tool is in the auto-confirm set
\* configured for the requested server, the gate returns true and the prompt
\* is never shown.
C11_AutoConfirmAsClaimed == ReplyInAutoConfirmSet => PassedWithoutPrompt

\* C11 (amended): if the bot has at least one MCP server configured and the
\* requested tool is in the auto-confirm set configured for the requested
\* server, the gate returns true and the prompt is never shown.
C11_AutoConfirmBypass ==
    (mcp_servers # {} /\ ReplyInAutoConfirmSet) => PassedWithoutPrompt

C11_Witness ==
    /\ mcp_servers # {}
    /\ ReplyInAutoConfirmSet
    /\ pc = "execute"
    /\ nPrompt = 0
    /\ approved # <<>>
    /\ approved[1].via = "auto"

\* C12: at the prompt an answer that, trimmed and lower-cased, is y or yes
\* makes the gate return true, one that is n or no makes it return false, and
\* any other answer brings the prompt up again and changes neither the
\* transcript nor the session state.
C12_PromptLoop ==
    [][(pc = "confirm" /\ answered' # <<>>) =>
         LET n == Lower(Strip(answered'[1])) IN
         IF n \in {<<"y">>, <<"y", "e", "s">>}
         THEN /\ approved' # <<>>
              /\ approved'[1].via = "answer"
              /\ pc' = "execute"
              /\ nExecutor' = nExecutor + 1
              /\ messages' = messages
         ELSE IF n \in {<<"n">>, <<"n", "o">>}
         THEN /\ approved' = <<>>
              /\ outcome' # <<>>
              /\ outcome'[1].kind = "cancelled"
              /\ pc' = "persist"
              /\ nExecutor' = nExecutor
         ELSE /\ pc' = "confirm"
              /\ nPrompt' = nPrompt + 1
              /\ approved' = <<>>
              /\ UNCHANGED <<messages, external_id, current_chat,
                             last_printed_text_output, storage, depth, mcp_tool,
                             outcome, executing, nExecutor, nProvider, nWrites>>
    ]_vars

C12_Witness ==
    /\ pc = "confirm"
    /\ answered = << <<"m">> >>
    /\ nPrompt = 2
    /\ mcp_tool # <<>>
    /\ mcp_tool[1].tool = "read"

\* C13: once the provider call of a turn has failed the exception has left
\* run: every frame of the turn made exactly one provider call and none made
\* a second one, the transcript ends in the user message the failed call was
\* made for (no assistant message for it), the gate and the executor are not
\* invoked after it, and nothing is written.
C13_ProviderFailureFatal ==
    failure = "provider" =>
        /\ pc = "stopped"
        /\ sessions_cleared
        /\ depth >= 1
        /\ nProvider = depth
        /\ Last(messages).role = "user"
        /\ Len(messages) >= 2 * depth - 1
        /\ outcome = <<>>
        /\ approved = <<>>
        /\ executing = <<>>
        /\ nExecutor = depth - 1
        /\ nWrites = 0

C13_Witness ==
    /\ failure = "provider"
    /\ pc = "stopped"
    /\ depth = 2
    /\ nProvider = 2
    /\ Last(messages).tool = "list"

\* C14: an interrupt at a suspension point ends run: the transcript is what
\* it was before the interrupt, the tool sessions are released, and nothing
\* happens to the transcript once run has ended.
C14_InterruptClean ==
    [][((failure' = "interrupt" /\ failure # "interrupt") \/ pc = "stopped") =>
         /\ messages' = messages
         /\ pc' = "stopped"
         /\ sessions_cleared'
         /\ UNCHANGED <<external_id, current_chat, last_printed_text_output>>
    ]_vars

C14_Witness ==
    /\ failure = "interrupt"
    /\ pc = "stopped"
    /\ sessions_cleared
    /\ executing # <<>>
    /\ Len(messages) = 2
    /\ Last(messages).role = "assistant"
    /\ Last(messages).tool = "list"

\* C15: a write creates the record only when the session has none, under the
\* session id and with the current transcript, and otherwise updates the
\* record under that id: create_chat is called at most once in a session,
\* never in a session loaded from the storage, and every write has the
\* session id as its target.
C15_CreateOnceSameId ==
    /\ \A i \in 1..Len(commits) :
          /\ commits[i].id = chat_id
          /\ commits[i].op = "create" <=> (i = 1 /\ ~continue_exist)
    /\ commits # <<>> =>
          /\ current_chat # <<>>
          /\ current_chat[1].id = chat_id
          /\ storage # <<>>
          /\ storage[1].id = chat_id
          /\ failure # "interrupt" => storage = current_chat
    /\ (pc \in {"persist", "input"} /\ nWrites >= 1) =>
          current_chat[1].messages = messages

C15_Witness ==
    /\ ~continue_exist
    /\ Len(commits) = 3
    /\ commits[1].op = "create"
    /\ commits[3].op = "update"
    /\ turns = 2
    /\ pc = "input"

\* C16: a write that follows another write of the same turn (the frames of a
\* turn unwind one after the other, the transcript does not change between
\* their writes) leaves the record as the first write left it: same id, same
\* transcript, same correlation id.
C16_CommitIdempotent ==
    [][(pc = "persist" /\ nWrites >= 1 /\ Len(commits') = Len(commits) + 1) =>
         /\ current_chat[1].messages = messages
         /\ storage' = storage
         /\ current_chat' = current_chat
         /\ storage'[1].id = chat_id
         /\ storage'[1].messages = messages
    ]_vars

C16_Witness ==
    /\ ~continue_exist
    /\ Len(commits) = 2
    /\ nWrites = 2
    /\ pc = "input"
    /\ storage = current_chat
    /\ storage[1].messages = messages
    /\ storage[1].external_id = "X"
    /\ external_id = "X"

\* C17: the executor is called only while no executor call is pending, and
\* a pending call is awaited where it was issued; when the executor is called
\* again in a turn, the result of the previous call is in the transcript as a
\* user message with the tool's metadata, right after its directive message,
\* and the provider call issued on that transcript has returned the reply this
\* call comes from. A turn starts with no executor call pending.
C17_ToolsSequenced ==
    [][/\ nExecutor' = nExecutor + 1 =>
            /\ executing = <<>>
            /\ executing' # <<>>
            /\ pc \in {"provider", "confirm"}
            /\ pc' = "execute"
            /\ nProvider = nExecutor + 1
            /\ nExecutor >= 1 =>
                  /\ round # <<>>
                  /\ round[1].exec = nExecutor - 1
                  /\ round[1].prov = nProvider - 1
                  /\ Len(messages') >= round[1].start + 3
                  /\ LET d == messages'[round[1].start + 1]
                         u == messages'[round[1].start + 2]
                         a == messages'[round[1].start + 3]
                     IN  /\ d.role = "assistant" /\ d.tool # None
                         /\ u.role = "user"
                         /\ u.server = d.server /\ u.tool = d.tool
                         /\ u.arguments = d.arguments
                         /\ u.content.text \in ToolResults
                         /\ a.role = "assistant"
                         /\ reply' # <<>>
                         /\ a = directive_message(reply'[1],
                                    split_content(reply'[1].content).plain,
                                    DirectiveOf(reply'[1])[1])
                         /\ executing' = <<[server |-> a.server, tool |-> a.tool,
                                            arguments |-> a.arguments]>>
       /\ executing' # <<>> => pc' \in {"execute", "stopped"}
       /\ turns' = turns + 1 => executing = <<>>
    ]_vars

C17_Witness ==
    /\ pc = "execute"
    /\ nExecutor = 2
    /\ nProvider = 2
    /\ Len(messages) = 4
    /\ messages[2].tool = "list"
    /\ messages[3].role = "user" /\ messages[3].tool = "list"
    /\ messages[4].tool = "read"
    /\ executing # <<>> /\ executing[1].tool = "read"

IsPrefix(s, t) == Len(s) <= Len(t) /\ SubSeq(t, 1, Len(s)) = s

\* C18: every step leaves the transcript it found as a prefix of the new
\* transcript, and an assistant message that enters the transcript has its
\* final form when it is appended: no tool-use part is left in its content,
\* and the tool metadata of the reply's directive, if any, is on it.
C18_AppendOnly ==
    [][/\ IsPrefix(messages, messages')
       /\ Len(messages') <= Len(messages) + 1 \/ pc = "start"
       /\ \A i \in (Len(messages) + 1)..Len(messages') :
             (pc # "start" /\ messages'[i].role = "assistant") =>
                /\ ~contains_tool_use(messages'[i].content)
                /\ reply' # <<>>
                /\ IF contains_tool_use(reply'[1].content)
                   THEN messages'[i] = directive_message(reply'[1],
                                           split_content(reply'[1].content).plain,
                                           DirectiveOf(reply'[1])[1])
                   ELSE messages'[i] = reply'[1]
    ]_vars

C18_Witness ==
    /\ pc = "input"
    /\ continue_exist
    /\ Len(messages) = 6
    /\ messages[2].content = Str("hi there")
    /\ messages[4].role = "assistant"
    /\ messages[4].tool = "read"
    /\ messages[4].content = List(<<>>)
    /\ IsCancellation(messages[5]) = FALSE
    /\ messages[5].tool = "read"
    /\ messages[6] = reply[1]

\* C19: once a reply without tool-use part has ended the turn, the last
\* printed text is that reply's text: the whole string of a plain string
\* content, the first part of type text of a content made of parts.
C19_LastPrintedText ==
    (outcome # <<>> /\ outcome[1].kind = "terminal" /\ Unwinding) =>
        /\ IsTerminalAssistant(Last(messages))
        /\ Last(messages) = reply[1]
        /\ LET c == Last(messages).content IN
           IF c.kind = "str"
           THEN last_printed_text_output = c.text
           ELSE \E i \in 1..Len(c.parts) :
                   /\ c.parts[i].type = "text"
                   /\ \A j \in 1..(i - 1) : c.parts[j].type # "text"
                   /\ last_printed_text_output = c.parts[i].text

\* the scenario of the specification: "hello" answered by "hi there"
C19_Witness ==
    /\ ~continue_exist
    /\ pc = "input"
    /\ turns = 1
    /\ Len(messages) = 2
    /\ messages[1] = create_message("user", Str("hello"), None, None, None)
    /\ messages[2] = create_message("assistant", Str("hi there"), None, None, None)
    /\ last_printed_text_output = "hi there"

\* C20: in a turn that has received k replies with a tool-use part the
\* controller has issued at most k + 1 provider calls and at most k executor
\* calls, and the frames are as deep as the provider calls are many; a turn
\* is over only after a reply without tool use, a denial or an unusable
\* directive; the controller never ends the chain itself (a tool result always
\* goes to the provider in a deeper frame); and a turn whose provider stops
\* asking for tools returns to the loop or ends run.
C20_ChainBounds ==
    /\ nExecutor <= nToolReplies
    /\ nProvider <= nToolReplies + 1
    /\ pc \in {"provider", "confirm", "execute"} =>
          /\ depth = nProvider
          /\ nProvider = nExecutor + (IF pc = "execute" THEN 0 ELSE 1)
    /\ (turns > 0 /\ Unwinding) =>
          /\ outcome # <<>>
          /\ nProvider = nExecutor + 1

C20_ChainNotCut ==
    (pc = "execute" /\ pc' # "stopped") =>
        /\ pc' = "provider"
        /\ depth' = depth + 1
        /\ nProvider' = nProvider + 1
        /\ Len(messages') = Len(messages) + 1

C20_ToolLoopTerminates ==
    /\ []C20_ChainBounds
    /\ [][C20_ChainNotCut]_vars
    /\ (pc = "provider" ~> pc \in {"input", "stopped"})

C20_Witness ==
    /\ pc = "input"
    /\ turns = 1
    /\ nToolReplies = 2
    /\ nProvider = 3
    /\ nExecutor = 2
    /\ Len(messages) = 6
    /\ outcome # <<>> /\ outcome[1].kind = "terminal"
    /\ Len(commits) = 3

\* C21: in a session that started with an empty transcript, a provider call
\* is pending (or has raised) only on a transcript that ends in a user
\* message, and every assistant message of the transcript comes right after
\* a user message.
C21_Alternation ==
    ~continue_exist =>
        /\ (pc = "provider" \/ failure = "provider") =>
              /\ messages # <<>>
              /\ Last(messages).role = "user"
        /\ \A i \in 1..Len(messages) :
              messages[i].role = "assistant" =>
                 /\ i > 1
                 /\ messages[i - 1].role = "user"

\* a cancelled turn followed by a turn whose reply had an unusable directive
C21_Witness ==
    /\ ~continue_exist
    /\ pc = "input"
    /\ turns = 2
    /\ Len(messages) = 4
    /\ messages[2].role = "assistant" /\ messages[2].tool # None
    /\ IsCancellation(messages[3])
    /\ messages[4].role = "user"
    /\ ReplyMalformed

\* C22: when the top-level frame of a turn has returned to the loop (after a
\* reply without tool use, a denial or an unusable directive), the stored
\* record has the session id and its transcript is the whole transcript in
\* memory; the record the session holds is that stored record.
C22_StoredTranscriptComplete ==
    ReturnedNormally =>
        /\ outcome # <<>>
        /\ outcome[1].kind \in {"terminal", "cancelled", "malformed"}
        /\ storage # <<>>
        /\ storage[1].id = chat_id
        /\ storage[1].messages = messages
        /\ Len(storage[1].messages) = Len(messages)
        /\ current_chat = storage
        /\ nWrites >= 1

\* a tool round followed by a reply with an unusable directive: the three
\* messages of the turn are stored, by the second write of the turn
C22_Witness ==
    /\ ReturnedNormally
    /\ ~continue_exist
    /\ turns = 1
    /\ outcome # <<>> /\ outcome[1].kind = "malformed"
    /\ round # <<>>
    /\ Len(messages) = 3
    /\ storage[1].messages = messages
    /\ messages[3].tool = "list"
    /\ nWrites = 2

\* C23: of what is typed at the input prompt, only an input classified as
\* chat that does not start with "copy " starts a turn; an empty input, a
\* slash command and an input starting with "copy " leave the transcript, the
\* correlation id and the record (stored and held) as they are and issue no
\* provider call; exit or quit in any letter case, and end of input, end the
\* loop and run.
C23_InputDispatch ==
    [][(pc = "input" /\ answered' # <<>>) =>
         LET answer == answered'[1]
             input == get_input(answer)
             copy == input.type = "chat" /\ StartsWith(input.value, <<"c", "o", "p", "y", " ">>)
         IN  /\ (turns' # turns \/ pc' = "provider" \/ messages' # messages) =>
                   /\ input.type = "chat"
                   /\ ~copy
                   /\ messages' = Append(messages,
                          create_message("user", Str(Join(input.value)), None, None, None))
             /\ (input.type \in {"empty", "command"} \/ copy) =>
                   /\ UNCHANGED <<messages, external_id, current_chat, storage,
                                  nProvider, turns, depth, commits>>
                   /\ pc' \in {"input", "stopped"}
                   /\ pc' = "stopped" => failure' = "translate"
             /\ (answer.eof \/ Lower(answer.text) \in {<<"e", "x", "i", "t">>, <<"q", "u", "i", "t">>}) =>
                   /\ input.type = "exit"
                   /\ pc' = "stopped"
                   /\ sessions_cleared'
                   /\ failure' = "none"
                   /\ UNCHANGED <<messages, external_id, current_chat, storage,
                                  nProvider, turns>>
    ]_vars

\* "copy 1 2" typed after a turn: the handler took it, no turn started
C23_Witness ==
    /\ pc = "input"
    /\ answered = <<Line(<<"c", "o", "p", "y", " ", "1", " ", "2">>)>>
    /\ turns = 1
    /\ Len(messages) = 2
    /\ storage # <<>>
    /\ storage[1].messages = messages

====
